---- MODULE Spec2Model ----
(***************************************************************************)
(* Model of the MCP Supreme demo backend (src/backend/server.js): the      *)
(* User and Project collections, the JWT middleware, the auth routes and   *)
(* the project routes.  Every `await` on the document store is a point     *)
(* where another request may run, so a handler with several store calls    *)
(* is several steps; the request between two of its steps sits in          *)
(* `inflight`.                                                             *)
(*                                                                         *)
(* Library behaviour relied upon (mongoose, bcryptjs, jsonwebtoken):       *)
(*  - a query whose _id is no ObjectId string rejects (CastError);         *)
(*  - save() validates required / enum / ObjectId casts and rejects;       *)
(*  - save() of a loaded document writes only the paths whose value was    *)
(*    changed, and rejects when the document is gone;                      *)
(*  - `unique: true` builds a unique index, insert rejects on a duplicate; *)
(*  - bcrypt.hash / bcrypt.compare reject when the password is no string;  *)
(*  - jwt.verify fails on a malformed, mis-signed or expired token.        *)
(* Every rejection lands in the handler's catch block: status 500.         *)
(* A stored document always satisfies the schema, so the validation of a   *)
(* loaded document after Object.assign is the validation of the assigned   *)
(* values; a suspended update therefore carries its patch and its modified *)
(* paths, not the whole loaded document.                                   *)
(* Not modelled: the body of the update response, and mongoose's __v check *)
(* on concurrent array overwrites (the model lets both saves through).     *)
(***************************************************************************)
EXTENDS Integers, Sequences, FiniteSets, Bags, TLC

\* ------------------------------------------------------------- bounds
MaxProjects == 1
MaxInflight == 2
MaxTime == 24
MaxConnections == 3
MaxDelivered == 1

\* ------------------------------------------------- program constants
TokenTTL == 24            \* expiresIn: '24h' (hours)
TickStep == 12            \* granularity of the model clock (hours)
Secret == "mcp-supreme-secret"
Undefined == "undefined"  \* a field absent from a JSON body
MalformedId == 0          \* an id that is no 24-hex ObjectId string, e.g. "abc"

StatusEnum == {"planning", "development", "testing", "deployed"}

\* ------------------------------------------------------------- inputs
UserNames == {"alice", "bob"}
Emails == {"alice@x.com", "bob@x.com"}
Passwords == {"pw", "other"}
ProjectIds == 1..MaxProjects
Connections == 1..MaxConnections

VARIABLES
  User,          \* the users collection: sequence, User[i] has _id i
  Project,       \* the projects collection: function from _id to document
  nextProjectId, \* _ids are never reused
  creator,       \* history: the user whose create request stored each project
  tokens,        \* every token the server has issued
  now,           \* the clock, in hours
  inflight,      \* bag of the requests suspended on an await
  resp,          \* the response the last step sent, NoReply if it sent none
  sockets,       \* the socket.io connections: state, project rooms, handshake
  delivered      \* per connection, the events emitted to it and not yet handled

realtime == <<sockets, delivered>>
http == <<User, Project, nextProjectId, creator, tokens, now, inflight>>
vars == <<User, Project, nextProjectId, creator, tokens, now, inflight, resp,
          sockets, delivered>>

\* ------------------------------------------------------------- tokens
NoToken == [userId |-> 0, username |-> "", exp |-> 0, sig |-> ""]

\* jwt.sign({userId, username}, secret, {expiresIn: '24h'})
Sign(uid, uname) ==
  [userId |-> uid, username |-> uname, exp |-> now + TokenTTL, sig |-> Secret]

\* faulty variant: the expiry is not checked
Verify_IgnoresExpiry(tok) == tok.sig = Secret

\* jwt.verify(token, secret): well-formed, signed with the secret, not expired
Verify(tok) == tok.sig = Secret /\ now < tok.exp

\* An Authorization header is the sequence of its space-separated parts;
\* <<>> is no header.  authHeader && authHeader.split(' ')[1]
HeaderToken(h) == IF Len(h) >= 2 THEN h[2] ELSE NoToken

\* authenticateToken: 0 = next() is called, else the status it answers
AuthStatus(h) ==
  IF HeaderToken(h) = NoToken THEN 401
  ELSE IF ~Verify(HeaderToken(h)) THEN 403
  ELSE 0

AuthError(h) ==
  IF HeaderToken(h) = NoToken THEN "Access token required" ELSE "Invalid token"

Bearer(tok) == <<"Bearer", tok>>

\* ---------------------------------------------------------- responses
NoPatch ==
  [fields |-> {}, name |-> "", description |-> "", technology |-> "",
   status |-> "", owner |-> 0, collaborators |-> {}, createdAt |-> 0,
   updatedAt |-> 0]

NoDoc ==
  [name |-> "", description |-> "", technology |-> "", status |-> "",
   owner |-> 0, collaborators |-> {}, createdAt |-> 0, updatedAt |-> 0]

NoStats ==
  [userCount |-> 0, projectCount |-> 0, userProjects |-> 0,
   projectsByStatus |-> {}, projectsByTechnology |-> {}]

Reply(route, status, error) ==
  [route |-> route, caller |-> 0, id |-> 0, status |-> status, error |-> error,
   token |-> NoToken, projects |-> {}, stats |-> NoStats]

ReplyToken(route, status, tok) ==
  [route |-> route, caller |-> 0, id |-> 0, status |-> status, error |-> "",
   token |-> tok, projects |-> {}, stats |-> NoStats]

ReplyProjects(route, status, ps) ==
  [route |-> route, caller |-> 0, id |-> 0, status |-> status, error |-> "",
   token |-> NoToken, projects |-> ps, stats |-> NoStats]

ReplyStats(route, status, st) ==
  [route |-> route, caller |-> 0, id |-> 0, status |-> status, error |-> "",
   token |-> NoToken, projects |-> {}, stats |-> st]

\* the request a response answers: the authenticated caller and the :id parameter
From(reply, caller, id) == [reply EXCEPT !.caller = caller, !.id = id]

NoReply == Reply("", 0, "")

Idle ==
  [op |-> "idle", caller |-> 0, id |-> 0, patch |-> NoPatch, paths |-> {},
   username |-> "", email |-> "", password |-> "", pc |-> 0, acc |-> NoStats,
   seen |-> <<>>]

\* `seen` is history: the projects collection as each of the caller-filtered
\* reads of a stats request found it.
\* At most MaxInflight requests are suspended at a time.
\* a connection not yet made; `asked` is history: the ids of its join-project
\* events
NewSocket == [state |-> "new", rooms |-> {}, asked |-> {}, token |-> NoToken]

CanSuspend == BagCardinality(inflight) < MaxInflight
Suspend(r) == inflight (+) SetToBag({r})
Resume(r) == inflight (-) SetToBag({r})
Suspended(op) == {r \in BagToSet(inflight) : r.op = op}

Init ==
  /\ User = <<>>
  /\ Project = <<>>
  /\ nextProjectId = 1
  /\ creator = <<>>
  /\ tokens = {}
  /\ now = 0
  /\ inflight = EmptyBag
  /\ resp = NoReply
  /\ sockets = [c \in Connections |-> NewSocket]
  /\ delivered = [c \in Connections |-> <<>>]

\* -------------------------------------------------------------- clock
Tick ==
  /\ now + TickStep <= MaxTime
  /\ now' = now + TickStep
  /\ resp' = NoReply
  /\ UNCHANGED <<User, Project, nextProjectId, creator, tokens, inflight, realtime>>

\* -------------------------------------------------------- auth routes
\* bcrypt.hash(password, 12): salted; compare succeeds on the same password
Hash(pw) == <<"bcrypt", pw>>
Compare(pw, h) == h = Hash(pw)

\* faulty variant: the lookup matches on the email only
ExistingUser_EmailOnly(username, email) ==
  {i \in DOMAIN User : User[i].email = email}

\* User.findOne({ $or: [{ email }, { username }] })
ExistingUser(username, email) ==
  {i \in DOMAIN User : User[i].email = email \/ User[i].username = username}

\* User.findOne({ email })
UserByEmail(email) == {i \in DOMAIN User : User[i].email = email}

\* POST /api/auth/register up to the first await's answer
RegisterFind(username, email, password) ==
  /\ CanSuspend
  /\ IF ExistingUser(username, email) # {}
     THEN /\ resp' = Reply("register", 400, "User already exists")
          /\ UNCHANGED inflight
     ELSE /\ inflight' = Suspend(
                [Idle EXCEPT !.op = "register", !.username = username,
                             !.email = email, !.password = password])
          /\ resp' = NoReply
  /\ UNCHANGED <<User, Project, nextProjectId, creator, tokens, now, realtime>>

\* userSchema: the required paths (absent or empty is rejected)
UserValid(username, email) ==
  /\ username # Undefined /\ username # ""
  /\ email # Undefined /\ email # ""

\* faulty variant: the unique indexes are missing
UniqueIndexOk_NoIndex(username, email) == TRUE

\* userSchema: the unique indexes on username and email
UniqueIndexOk(username, email) ==
  \A i \in DOMAIN User : User[i].username # username /\ User[i].email # email

\* POST /api/auth/register from bcrypt.hash on
RegisterSave(r) ==
  LET id == Len(User) + 1
      ok == /\ r.password # Undefined
            /\ UserValid(r.username, r.email)
            /\ UniqueIndexOk(r.username, r.email)
  IN
  /\ r \in Suspended("register")
  /\ inflight' = Resume(r)
  /\ IF ok
     THEN /\ User' = Append(User, [username |-> r.username, email |-> r.email,
                                   password |-> Hash(r.password), role |-> "user",
                                   createdAt |-> now])
          /\ tokens' = tokens \cup {Sign(id, r.username)}
          /\ resp' = ReplyToken("register", 201, Sign(id, r.username))
     ELSE /\ resp' = Reply("register", 500, "Internal server error")
          /\ UNCHANGED <<User, tokens>>
  /\ UNCHANGED <<Project, nextProjectId, creator, now, realtime>>

\* POST /api/auth/login
Login(email, password) ==
  /\ IF UserByEmail(email) = {}
     THEN /\ resp' = Reply("login", 401, "Invalid credentials")
          /\ UNCHANGED tokens
     ELSE LET i == CHOOSE i \in UserByEmail(email) : TRUE IN
          IF password = Undefined
          THEN /\ resp' = Reply("login", 500, "Internal server error")
               /\ UNCHANGED tokens
          ELSE IF ~Compare(password, User[i].password)
          THEN /\ resp' = Reply("login", 401, "Invalid credentials")
               /\ UNCHANGED tokens
          ELSE /\ tokens' = tokens \cup {Sign(i, User[i].username)}
               /\ resp' = ReplyToken("login", 200, Sign(i, User[i].username))
  /\ UNCHANGED <<User, Project, nextProjectId, creator, now, inflight, realtime>>

\* ----------------------------------------------------- project routes
\* .populate(path, 'username email'): the referenced user, or null
NullUser == [_id |-> 0, username |-> "", email |-> ""]
UserView(uid) ==
  IF uid \in DOMAIN User
  THEN [_id |-> uid, username |-> User[uid].username, email |-> User[uid].email]
  ELSE NullUser

Populate(id, doc) ==
  [_id |-> id, name |-> doc.name, description |-> doc.description,
   technology |-> doc.technology, status |-> doc.status,
   owner |-> UserView(doc.owner),
   collaborators |-> {UserView(c) : c \in doc.collaborators \cap DOMAIN User},
   createdAt |-> doc.createdAt, updatedAt |-> doc.updatedAt]

\* faulty variant: the owner clause of the filter is lost
CanAccess_CollaboratorsOnly(doc, uid) == uid \in doc.collaborators

\* { $or: [{ owner: userId }, { collaborators: userId }] }
CanAccess(doc, uid) == doc.owner = uid \/ uid \in doc.collaborators

\* Project.find({ $or: ... }).populate(...).populate(...)
ListVisible(uid) ==
  {Populate(id, Project[id]) : id \in {i \in DOMAIN Project : CanAccess(Project[i], uid)}}

AuthFail(route, h) ==
  /\ AuthStatus(h) # 0
  /\ resp' = Reply(route, AuthStatus(h), AuthError(h))
  /\ UNCHANGED <<User, Project, nextProjectId, creator, tokens, now, inflight, realtime>>

Caller(h) == HeaderToken(h).userId

\* GET /api/projects
GetProjects(h) ==
  \/ AuthFail("list", h)
  \/ /\ AuthStatus(h) = 0
     /\ resp' = From(ReplyProjects("list", 200, ListVisible(Caller(h))), Caller(h), 0)
     /\ UNCHANGED <<User, Project, nextProjectId, creator, tokens, now, inflight, realtime>>

\* projectSchema: `required` rejects an absent or empty string
Required(v) == v # Undefined /\ v # ""

\* POST /api/projects
CreateProject(h, name, description, technology) ==
  \/ AuthFail("create", h)
  \/ /\ AuthStatus(h) = 0
     /\ IF Required(name) /\ Required(technology)
        THEN LET doc == [name |-> name, description |-> description,
                         technology |-> technology, status |-> "planning",
                         owner |-> Caller(h), collaborators |-> {},
                         createdAt |-> now, updatedAt |-> now]
             IN /\ nextProjectId <= MaxProjects
                /\ Project' = (nextProjectId :> doc) @@ Project
                /\ nextProjectId' = nextProjectId + 1
                /\ creator' = (nextProjectId :> Caller(h)) @@ creator
                /\ resp' = From(ReplyProjects("create", 201,
                                 {[Populate(nextProjectId, doc) EXCEPT !.collaborators = {}]}),
                              Caller(h), nextProjectId)
        ELSE /\ resp' = From(Reply("create", 500, "Internal server error"), Caller(h), 0)
             /\ UNCHANGED <<Project, nextProjectId, creator>>
     /\ UNCHANGED <<User, tokens, now, inflight, realtime>>

\* Project.findOne({ _id: id, $or: [{ owner }, { collaborators }] })
FindForUpdate(id, uid) ==
  {i \in DOMAIN Project : i = id /\ CanAccess(Project[i], uid)}

\* Object.assign(project, updates): every key of the body, owner and the two
\* timestamps included
Assign(doc, patch) ==
  [name |-> IF "name" \in patch.fields THEN patch.name ELSE doc.name,
   description |-> IF "description" \in patch.fields THEN patch.description
                   ELSE doc.description,
   technology |-> IF "technology" \in patch.fields THEN patch.technology
                  ELSE doc.technology,
   status |-> IF "status" \in patch.fields THEN patch.status ELSE doc.status,
   owner |-> IF "owner" \in patch.fields THEN patch.owner ELSE doc.owner,
   collaborators |-> IF "collaborators" \in patch.fields THEN patch.collaborators
                     ELSE doc.collaborators,
   createdAt |-> IF "createdAt" \in patch.fields THEN patch.createdAt
                 ELSE doc.createdAt,
   updatedAt |-> IF "updatedAt" \in patch.fields THEN patch.updatedAt
                 ELSE doc.updatedAt]

\* the paths mongoose marks modified: assigned a value that differs
Modified(doc, patch) ==
  {f \in patch.fields : Assign(doc, patch)[f] # doc[f]}

\* PUT /api/projects/:id up to the answer of findOne
UpdateFind(h, id, patch) ==
  \/ AuthFail("update", h)
  \/ /\ AuthStatus(h) = 0
     /\ CanSuspend
     /\ IF id = MalformedId
        THEN /\ resp' = From(Reply("update", 500, "Internal server error"), Caller(h), id)
             /\ UNCHANGED inflight
        ELSE IF FindForUpdate(id, Caller(h)) = {}
        THEN /\ resp' = From(Reply("update", 404, "Project not found"), Caller(h), id)
             /\ UNCHANGED inflight
        ELSE /\ inflight' = Suspend(
                   [Idle EXCEPT !.op = "update", !.caller = Caller(h), !.id = id,
                                !.patch = patch,
                                !.paths = Modified(Project[id], patch)])
             /\ resp' = NoReply
     /\ UNCHANGED <<User, Project, nextProjectId, creator, tokens, now, realtime>>

\* faulty variant: the status is not checked against the enum
ProjectValid_NoEnum(doc) ==
  /\ Required(doc.name)
  /\ Required(doc.technology)
  /\ doc.owner # MalformedId
  /\ MalformedId \notin doc.collaborators

\* projectSchema validation of the document in memory
ProjectValid(doc) ==
  /\ Required(doc.name)
  /\ Required(doc.technology)
  /\ doc.status \in StatusEnum
  /\ doc.owner # MalformedId
  /\ MalformedId \notin doc.collaborators

\* a document that satisfies the schema, to validate assigned values against
ValidDoc == [NoDoc EXCEPT !.name = "x", !.technology = "x", !.status = "planning",
                          !.owner = 1]

\* updateOne({ _id }, { $set: <modified paths> })
Store(stored, patch, paths, time) ==
  [Assign(stored, [patch EXCEPT !.fields = paths]) EXCEPT !.updatedAt = time]

\* PUT /api/projects/:id from Object.assign on
UpdateSave(r) ==
  /\ r \in Suspended("update")
  /\ inflight' = Resume(r)
  /\ IF ProjectValid(Assign(ValidDoc, r.patch)) /\ r.id \in DOMAIN Project
     THEN /\ Project' = [Project EXCEPT ![r.id] = Store(@, r.patch, r.paths, now)]
          /\ resp' = From(Reply("update", 200, ""), r.caller, r.id)
     ELSE /\ resp' = From(Reply("update", 500, "Internal server error"), r.caller, r.id)
          /\ UNCHANGED Project
  /\ UNCHANGED <<User, nextProjectId, creator, tokens, now, realtime>>

\* faulty variant: delete uses the filter of update
FindForDelete_AnyMember(id, uid) ==
  {i \in DOMAIN Project : i = id /\ CanAccess(Project[i], uid)}

\* Project.findOne({ _id: id, owner: userId })
FindForDelete(id, uid) ==
  {i \in DOMAIN Project : i = id /\ Project[i].owner = uid}

\* DELETE /api/projects/:id up to the answer of findOne
DeleteFind(h, id) ==
  \/ AuthFail("delete", h)
  \/ /\ AuthStatus(h) = 0
     /\ CanSuspend
     /\ IF id = MalformedId
        THEN /\ resp' = From(Reply("delete", 500, "Internal server error"), Caller(h), id)
             /\ UNCHANGED inflight
        ELSE IF FindForDelete(id, Caller(h)) = {}
        THEN /\ resp' = From(Reply("delete", 404,
                                   "Project not found or insufficient permissions"),
                             Caller(h), id)
             /\ UNCHANGED inflight
        ELSE /\ inflight' = Suspend(
                   [Idle EXCEPT !.op = "delete", !.caller = Caller(h), !.id = id])
             /\ resp' = NoReply
     /\ UNCHANGED <<User, Project, nextProjectId, creator, tokens, now, realtime>>

\* Project.findByIdAndDelete(id), then the confirmation
DeleteRemove(r) ==
  /\ r \in Suspended("delete")
  /\ inflight' = Resume(r)
  /\ Project' = [i \in DOMAIN Project \ {r.id} |-> Project[i]]
  /\ resp' = From(Reply("delete", 200, ""), r.caller, r.id)
  /\ UNCHANGED <<User, nextProjectId, creator, tokens, now, realtime>>

\* ---------------------------------------------------------- analytics
\* Project.countDocuments({ $or: [{ owner }, { collaborators }] })
VisibleIds(uid) == {i \in DOMAIN Project : CanAccess(Project[i], uid)}

\* faulty variant: $match lacks the collaborators clause
GroupCount_OwnerOnly(uid, field) ==
  {[_id |-> v,
    count |-> Cardinality({i \in DOMAIN Project :
                             Project[i].owner = uid /\ Project[i][field] = v})] :
     v \in {Project[i][field] : i \in {j \in DOMAIN Project : Project[j].owner = uid}}}

\* Project.aggregate([{ $match: ... }, { $group: { _id: '$<field>', count: { $sum: 1 } } }])
GroupCount(uid, field) ==
  {[_id |-> v, count |-> Cardinality({i \in VisibleIds(uid) : Project[i][field] = v})] :
     v \in {Project[i][field] : i \in VisibleIds(uid)}}

\* GET /api/analytics/stats up to the answer of User.countDocuments()
StatsStart(h) ==
  \/ AuthFail("stats", h)
  \/ /\ AuthStatus(h) = 0
     /\ CanSuspend
     /\ inflight' = Suspend(
           [Idle EXCEPT !.op = "stats", !.caller = Caller(h), !.pc = 1,
                        !.acc = [NoStats EXCEPT !.userCount = Len(User)]])
     /\ resp' = NoReply
     /\ UNCHANGED <<User, Project, nextProjectId, creator, tokens, now, realtime>>

\* GET /api/analytics/stats: the four reads of the projects collection, in order
StatsRead(r) ==
  LET acc ==
        CASE r.pc = 1 -> [r.acc EXCEPT !.projectCount = Cardinality(DOMAIN Project)]
          [] r.pc = 2 -> [r.acc EXCEPT !.userProjects = Cardinality(VisibleIds(r.caller))]
          [] r.pc = 3 -> [r.acc EXCEPT !.projectsByStatus = GroupCount(r.caller, "status")]
          [] OTHER -> [r.acc EXCEPT !.projectsByTechnology =
                                       GroupCount(r.caller, "technology")]
  IN
  /\ r \in Suspended("stats")
  /\ IF r.pc < 4
     THEN /\ inflight' = Resume(r) (+)
                           SetToBag({[r EXCEPT !.pc = r.pc + 1, !.acc = acc,
                                               !.seen = IF r.pc = 1 THEN <<>>
                                                        ELSE Append(@, Project)]})
          /\ resp' = NoReply
     ELSE /\ inflight' = Resume(r)
          /\ resp' = From(ReplyStats("stats", 200, acc), r.caller, 0)
  /\ UNCHANGED <<User, Project, nextProjectId, creator, tokens, now, realtime>>

\* ------------------------------------------------------- request inputs
\* Authorization headers: none, a scheme without a token, a token signed with
\* another secret, a string that is no JWT, and every token the server issued
\* (which the clock may have expired).
Forged == [userId |-> 1, username |-> "alice", exp |-> MaxTime + TokenTTL,
           sig |-> "another-secret"]
Garbage == [userId |-> 0, username |-> "", exp |-> 0, sig |-> "not-a-jwt"]
IssuedHeaders == {Bearer(t) : t \in tokens}
BadHeaders == {<<>>, <<"Bearer">>, Bearer(Forged), Bearer(Garbage)}
Headers == IssuedHeaders \cup BadHeaders

StatusPatch(v) == [NoPatch EXCEPT !.fields = {"status"}, !.status = v]
OwnerPatch(v) == [NoPatch EXCEPT !.fields = {"owner"}, !.owner = v]
CollabPatch(v) == [NoPatch EXCEPT !.fields = {"collaborators"}, !.collaborators = v]

Patches ==
  {StatusPatch("deployed")}
  \cup {OwnerPatch(u) : u \in DOMAIN User}
  \cup {CollabPatch({u}) : u \in DOMAIN User}

RequestIds == ProjectIds \cup {MalformedId}

\* ------------------------------------------------------------ realtime
\* `project-${projectId}`: an absent id is written "undefined"
RoomName(projectId) == "project-" \o projectId

\* io.on('connection'): the socket is in no project room (its own room, named
\* by the socket id, is no project room)
Connect(c, tok) ==
  /\ sockets[c].state = "new"
  /\ sockets' = [sockets EXCEPT ![c].state = "connected", ![c].token = tok]
  /\ resp' = NoReply
  /\ UNCHANGED <<http, delivered>>

\* socket.on('join-project'): socket.join, no check of the id or of the caller
JoinProject(c, projectId) ==
  /\ sockets[c].state = "connected"
  /\ sockets' = [sockets EXCEPT ![c].rooms = @ \cup {RoomName(projectId)},
                                ![c].asked = @ \cup {projectId}]
  /\ resp' = NoReply
  /\ UNCHANGED <<http, delivered>>

\* faulty variant: io.to(room), which reaches the sender too
Recipients_WithSender(c, room) ==
  {d \in Connections : room \in sockets[d].rooms}

\* socket.to(room): every socket in the room except the sender
Recipients(c, room) ==
  {d \in Connections \ {c} : room \in sockets[d].rooms}

ProjectUpdated(data) == [event |-> "project-updated", data |-> data]

\* socket.on('project-update'): socket.to(room).emit('project-updated', data)
Publish(c, data) ==
  /\ sockets[c].state = "connected"
  /\ \A d \in Recipients(c, RoomName(data.projectId)) :
       Len(delivered[d]) < MaxDelivered
  /\ delivered' =
       [d \in Connections |->
          IF d \in Recipients(c, RoomName(data.projectId))
          THEN Append(delivered[d], ProjectUpdated(data))
          ELSE delivered[d]]
  /\ resp' = NoReply
  /\ UNCHANGED <<http, sockets>>

\* faulty variant: the rooms of a closed socket are kept
LeaveAll_Keeps(rooms) == rooms

\* socket.io on disconnect: the socket leaves every room
LeaveAll(rooms) == {}

\* socket.on('disconnect'): the handler logs; socket.io has left the rooms
Disconnect(c) ==
  /\ sockets[c].state = "connected"
  /\ sockets' = [sockets EXCEPT ![c].state = "disconnected",
                                ![c].rooms = LeaveAll(@)]
  /\ resp' = NoReply
  /\ UNCHANGED <<http, delivered>>

\* ----------------------------------------------------- dashboard client
\* apiCall: an Authorization header only when a token is stored
ClientHeader(c) ==
  IF sockets[c].token = NoToken THEN <<>> ELSE Bearer(sockets[c].token)

\* the answer of GET /api/projects to a request with header h
ListReply(h) ==
  IF AuthStatus(h) # 0
  THEN Reply("list", AuthStatus(h), AuthError(h))
  ELSE From(ReplyProjects("list", 200, ListVisible(Caller(h))), Caller(h), 0)

\* newSocket.on('project-updated'): notification, then fetchProjects()
OnProjectUpdated(c) ==
  /\ sockets[c].state = "connected"
  /\ delivered[c] # <<>>
  /\ delivered' = [delivered EXCEPT ![c] = Tail(@)]
  /\ resp' = ListReply(ClientHeader(c))
  /\ UNCHANGED <<http, sockets>>

\* handleCreateProject once its PUT or POST was answered 2xx: after re-fetching
\* its own lists the client emits project-update with the id of the edited
\* project, or no id after a creation; the server relays it
HandleSaved(c) ==
  /\ sockets[c].token # NoToken
  /\ resp.caller = sockets[c].token.userId
  /\ \/ resp.route = "update" /\ resp.status = 200
     \/ resp.route = "create" /\ resp.status = 201
  /\ Publish(c, [projectId |-> IF resp.route = "update" THEN ToString(resp.id)
                               ELSE Undefined])

\* ------------------------------------------------------ specifications
\* Spec: the project routes under concurrent requests of registered users.
Alice == <<"alice", "alice@x.com">>
Bob == <<"bob", "bob@x.com">>

Registration(people) ==
  \/ \E u \in people : RegisterFind(u[1], u[2], "pw")
  \/ \E r \in Suspended("register") : RegisterSave(r)

CreateNames == {"Demo", Undefined}
CreateDescriptions == {"a demo", Undefined}
CreateTechnologies == {"React", ""}

Next ==
  \/ Registration({Alice, Bob})
  \/ \E h \in IssuedHeaders : GetProjects(h)
  \/ \E h \in IssuedHeaders, n \in CreateNames, d \in CreateDescriptions,
        t \in CreateTechnologies : CreateProject(h, n, d, t)
  \/ \E h \in IssuedHeaders, id \in RequestIds, p \in Patches :
        UpdateFind(h, id, p)
  \/ \E r \in Suspended("update") : UpdateSave(r)
  \/ \E h \in IssuedHeaders, id \in RequestIds : DeleteFind(h, id)
  \/ \E r \in Suspended("delete") : DeleteRemove(r)

Spec == Init /\ [][Next]_vars

\* SpecAuth: registration and login under a moving clock.
RegisterNames == UserNames \cup {Undefined}
RegisterEmails == Emails \cup {Undefined}
RegisterPasswords == {"pw", Undefined}
LoginPasswords == Passwords \cup {Undefined}

NextAuth ==
  \/ Tick
  \/ \E u \in RegisterNames, e \in RegisterEmails, p \in RegisterPasswords :
        RegisterFind(u, e, p)
  \/ \E r \in Suspended("register") : RegisterSave(r)
  \/ \E e \in Emails, p \in LoginPasswords : Login(e, p)

SpecAuth == Init /\ [][NextAuth]_vars
\* SpecGate: every protected route behind authenticateToken, with any header,
\* under a moving clock.
NextGate ==
  \/ Tick
  \/ Registration({Alice})
  \/ \E h \in Headers : GetProjects(h)
  \/ \E h \in Headers : CreateProject(h, "Demo", Undefined, "React")
  \/ \E h \in Headers, id \in ProjectIds : UpdateFind(h, id, StatusPatch("deployed"))
  \/ \E r \in Suspended("update") : UpdateSave(r)
  \/ \E h \in Headers, id \in ProjectIds : DeleteFind(h, id)
  \/ \E r \in Suspended("delete") : DeleteRemove(r)
  \/ \E h \in Headers : StatsStart(h)
  \/ \E r \in Suspended("stats") : StatsRead(r)

SpecGate == Init /\ [][NextGate]_vars

\* SpecUpdate: updates of a project, one after another and concurrent, with
\* valid and invalid patches, under a moving clock.
FutureDate == MaxTime + TokenTTL  \* a date after every reading of the clock
CreatedAtPatch(v) == [NoPatch EXCEPT !.fields = {"createdAt"}, !.createdAt = v]

UpdatePatches ==
  {StatusPatch(s) : s \in {"planning", "deployed", "archived"}}
  \cup {CreatedAtPatch(FutureDate)}

\* a client learns the id of a project from the answer to its creation, so the
\* update of a project reaches the server at a later reading of the clock
IssuedAfterCreation(id) == id \in DOMAIN Project => Project[id].createdAt < now

NextUpdate ==
  \/ Tick
  \/ Registration({Alice})
  \/ \E h \in IssuedHeaders : GetProjects(h)
  \/ \E h \in IssuedHeaders : CreateProject(h, "Demo", "a demo", "React")
  \/ \E h \in IssuedHeaders, id \in ProjectIds, p \in UpdatePatches :
        IssuedAfterCreation(id) /\ UpdateFind(h, id, p)
  \/ \E r \in Suspended("update") : UpdateSave(r)

SpecUpdate == Init /\ [][NextUpdate]_vars

\* SpecRealtime: connections that join, publish, handle what they receive and
\* disconnect, in any order.
PayloadIds == {ToString(id) : id \in ProjectIds} \cup {Undefined}

NextRealtime ==
  \/ \E c \in Connections : Connect(c, NoToken)
  \/ \E c \in Connections, p \in PayloadIds : JoinProject(c, p)
  \/ \E c \in Connections, p \in PayloadIds : Publish(c, [projectId |-> p])
  \/ \E c \in Connections : OnProjectUpdated(c)
  \/ \E c \in Connections : Disconnect(c)

SpecRealtime == Init /\ [][NextRealtime]_vars

\* SpecDashboard: dashboards of one registered user: each connects with the
\* user's token, saves projects and edits through the API and emits
\* project-update after a save; a dashboard emits no other event.
NextDashboard ==
  \/ Registration({Alice})
  \/ \E h \in IssuedHeaders : GetProjects(h)
  \/ \E h \in IssuedHeaders : CreateProject(h, "Demo", "a demo", "React")
  \/ \E h \in IssuedHeaders, id \in ProjectIds :
        UpdateFind(h, id, StatusPatch("deployed"))
  \/ \E r \in Suspended("update") : UpdateSave(r)
  \/ \E c \in Connections, tok \in tokens : Connect(c, tok)
  \/ \E c \in Connections : HandleSaved(c)
  \/ \E c \in Connections : Disconnect(c)

SpecDashboard == Init /\ [][NextDashboard]_vars

\* SpecStats: stats requests of two users while projects are created, shared,
\* updated and deleted.
StatsPatches == {StatusPatch("deployed")} \cup {CollabPatch({u}) : u \in DOMAIN User}

NextStats ==
  \/ Registration({Alice, Bob})
  \/ \E h \in IssuedHeaders : CreateProject(h, "Demo", "a demo", "React")
  \/ \E h \in IssuedHeaders, id \in ProjectIds, p \in StatsPatches :
        UpdateFind(h, id, p)
  \/ \E r \in Suspended("update") : UpdateSave(r)
  \/ \E h \in IssuedHeaders, id \in ProjectIds : DeleteFind(h, id)
  \/ \E r \in Suspended("delete") : DeleteRemove(r)
  \/ \E h \in IssuedHeaders : StatsStart(h)
  \/ \E r \in Suspended("stats") : StatsRead(r)

SpecStats == Init /\ [][NextStats]_vars

\* ============================================================== claims
VisibleTo(uid) == {v._id : v \in ListVisible(uid)}

\* C1: in every reachable state each stored project's owner is the user who
\* created it; create, update (whatever the patch) and delete never change it.
C1_OwnerIsCreator ==
  \A id \in DOMAIN Project : Project[id].owner = creator[id]

\* C2: a project leaves the store only in the removal step of a delete request
\* for that project, and a delete request is let through to its removal step
\* only when its lookup found the caller to be the stored owner; the delete of
\* a caller who is a collaborator but not the owner is answered 404 and changes
\* nothing, while the same caller's update on that project is accepted and,
\* with a valid patch, answered 200.
C2_OnlyOwnerDeletes ==
  [][ /\ \A id \in DOMAIN Project \ DOMAIN Project' :
           \E r \in Suspended("delete") : r.id = id /\ DeleteRemove(r)
      /\ \A r \in Suspended("delete")' :
           CopiesIn(r, inflight') > CopiesIn(r, inflight)
             => r.id \in DOMAIN Project /\ Project[r.id].owner = r.caller
      /\ \A h \in IssuedHeaders, id \in DOMAIN Project :
           ( /\ HeaderToken(h).userId \in Project[id].collaborators
             /\ HeaderToken(h).userId # Project[id].owner )
             => /\ DeleteFind(h, id)
                   => /\ resp'.status = 404
                      /\ Project' = Project
                      /\ inflight' = inflight
                /\ \A p \in Patches :
                     UpdateFind(h, id, p) =>
                       \E r \in Suspended("update")' :
                         r.caller = HeaderToken(h).userId /\ r.id = id /\ r.patch = p
      /\ \A r \in Suspended("update") :
           ( /\ r.patch = StatusPatch("deployed")
             /\ r.id \in DOMAIN Project
             /\ UpdateSave(r) )
             => resp'.status = 200 /\ Project'[r.id].status = "deployed"
    ]_vars

\* C2 witness: a collaborator who is not the owner was answered 404 on delete,
\* and the project is still stored.
C2_Witness ==
  /\ resp.route = "delete" /\ resp.status = 404
  /\ resp.id \in DOMAIN Project
  /\ resp.caller \in Project[resp.id].collaborators
  /\ resp.caller # Project[resp.id].owner

\* C3: an update by an authenticated caller who is neither owner nor
\* collaborator of an existing project, and an update on an id that matches no
\* project, are both answered 404 "Project not found" and leave the projects
\* collection unchanged.
C3_SameNotFound ==
  [][ \A h \in IssuedHeaders, id \in RequestIds, p \in Patches :
        ( /\ UpdateFind(h, id, p)
          /\ \/ id \notin DOMAIN Project
             \/ /\ HeaderToken(h).userId # Project[id].owner
                /\ HeaderToken(h).userId \notin Project[id].collaborators )
        => /\ resp'.status = 404
           /\ resp'.error = "Project not found"
           /\ Project' = Project
    ]_vars

\* C4: a stored project with no collaborators is in the list of the user who
\* created it and in the list of no other user.
C4_VisibleToCreatorOnly ==
  \A id \in DOMAIN Project :
    Project[id].collaborators = {} =>
      /\ id \in VisibleTo(creator[id])
      /\ \A b \in DOMAIN User \ {creator[id]} : id \notin VisibleTo(b)

\* C5: a register request whose email or username a stored user already holds
\* is answered 400 "User already exists", adds and changes no user, and every
\* token that verified before still verifies.
C5_DuplicateIsConflict ==
  [][ \A u \in RegisterNames, e \in RegisterEmails, p \in RegisterPasswords :
        ( /\ \E i \in DOMAIN User : User[i].email = e \/ User[i].username = u
          /\ RegisterFind(u, e, p) )
        => /\ resp'.status = 400
           /\ resp'.error = "User already exists"
           /\ User' = User
           /\ inflight' = inflight
           /\ tokens' = tokens
           /\ \A t \in tokens : Verify(t) => Verify(t)'
    ]_vars

\* C5 witness: a register was answered 400 while the token of the earlier
\* registration verifies.
C5_Witness ==
  /\ resp.route = "register" /\ resp.status = 400
  /\ \E i \in DOMAIN User, t \in tokens :
       t.userId = i /\ t.exp = User[i].createdAt + TokenTTL /\ Verify(t)

\* C6: no two stored users share a username and no two share an email.
C6_UniqueUsers ==
  \A i, j \in DOMAIN User :
    i # j => User[i].username # User[j].username /\ User[i].email # User[j].email

\* C6 witness: a user is stored while another register request with the same
\* email or username, whose lookup ran before that user was saved, has still to save.
C6_Witness ==
  \E i \in DOMAIN User, r \in Suspended("register") :
    r.email = User[i].email \/ r.username = User[i].username

\* C7: a login that does not present the registered password of the email is
\* answered 401 "Invalid credentials", whether or not the email is registered.
C7_SameLoginFailure ==
  [][ \A e \in Emails, p \in LoginPasswords :
        ( /\ ~ \E i \in DOMAIN User : User[i].email = e /\ User[i].password = Hash(p)
          /\ Login(e, p) )
        => resp'.status = 401 /\ resp'.error = "Invalid credentials"
    ]_vars

\* C8: on list, create, update, delete and stats, a request without a token is
\* answered 401 and a request whose token is malformed, mis-signed or expired
\* is answered 403; the answer carries no data, no request is let through to
\* the handler and neither collection changes.
ProtectedRequest(h) ==
  \/ GetProjects(h)
  \/ CreateProject(h, "Demo", Undefined, "React")
  \/ \E id \in ProjectIds : UpdateFind(h, id, StatusPatch("deployed"))
  \/ \E id \in ProjectIds : DeleteFind(h, id)
  \/ StatsStart(h)

C8_GateRejects ==
  [][ \A h \in Headers :
        LET none == Len(h) < 2
            bad == Len(h) >= 2 /\ (h[2].sig # Secret \/ now >= h[2].exp)
        IN ((none \/ bad) /\ ProtectedRequest(h))
           => /\ resp'.status = IF none THEN 401 ELSE 403
              /\ resp'.error = IF none THEN "Access token required" ELSE "Invalid token"
              /\ resp'.projects = {} /\ resp'.stats = NoStats
              /\ UNCHANGED <<User, Project, nextProjectId, creator, tokens, inflight>>
    ]_vars

\* C8 witness: an expired token was answered 403 while a project is stored.
C8_Witness ==
  /\ resp.status = 403 /\ resp.error = "Invalid token"
  /\ DOMAIN Project # {}
  /\ \E t \in tokens : now >= t.exp

\* C9: a create request without name or without technology is answered 400
\* and stores no project.
C9_MissingFieldIs400 ==
  [][ \A h \in IssuedHeaders, n \in CreateNames, d \in CreateDescriptions,
         t \in CreateTechnologies :
        ( /\ CreateProject(h, n, d, t)
          /\ n \in {Undefined, ""} \/ t \in {Undefined, ""} )
        => resp'.status = 400 /\ Project' = Project
    ]_vars

\* C10: right after a successful create(userId, name, description, technology)
\* the creator's list holds a project with exactly those name, description and
\* technology, status planning and owner the creator; and the list route
\* answers with exactly the caller's visible projects.
C10_CreateThenList ==
  [][ /\ \A h \in IssuedHeaders, n \in CreateNames, d \in CreateDescriptions,
            t \in CreateTechnologies :
           (resp'.route = "create" /\ resp'.status = 201 /\ CreateProject(h, n, d, t))
           => \E v \in ListVisible(HeaderToken(h).userId)' :
                /\ v._id \notin DOMAIN Project
                /\ v.name = n /\ v.description = d /\ v.technology = t
                /\ v.status = "planning"
                /\ v.owner._id = HeaderToken(h).userId
                /\ v.owner.username = HeaderToken(h).username
      /\ \A h \in IssuedHeaders :
           (resp'.route = "list" /\ resp'.status = 200 /\ GetProjects(h))
           => resp'.projects =
                {Populate(id, Project[id]) :
                   id \in {i \in DOMAIN Project :
                             \/ Project[i].owner = HeaderToken(h).userId
                             \/ HeaderToken(h).userId \in Project[i].collaborators}}
    ]_vars

\* C10 witness: the owner listed right after creating: the project that the
\* list answers is the created one, untouched.
C10_Witness ==
  /\ resp.route = "list" /\ resp.status = 200
  /\ \E v \in resp.projects :
       /\ v.owner._id = resp.caller
       /\ v.status = "planning" /\ v.name = "Demo" /\ v.description = "a demo"
       /\ v.technology = "React" /\ v.updatedAt = v.createdAt

\* C11: right after every update answered 200, the stored project, which is
\* what a fetch then shows, carries the patch's value in each field the patch
\* provided, its updatedAt is the time of the update, and its updatedAt is
\* strictly greater than its createdAt.
C11_UpdateShowsPatch ==
  [][ \A r \in Suspended("update") :
        ( /\ resp'.route = "update" /\ resp'.status = 200
          /\ UpdateSave(r) )
        => /\ \A f \in r.patch.fields : Project'[r.id][f] = r.patch[f]
           /\ Project'[r.id].updatedAt = now
           /\ Project'[r.id].updatedAt > Project'[r.id].createdAt
    ]_vars

C13_DeliveredToRoom ==
  [][ \A c \in Connections, p \in PayloadIds :
        Publish(c, [projectId |-> p])
        => \A d \in Connections :
             delivered'[d] =
               IF d # c /\ sockets[d].state = "connected" /\ p \in sockets[d].asked
               THEN Append(delivered[d],
                           [event |-> "project-updated", data |-> [projectId |-> p]])
               ELSE delivered[d]
    ]_vars

\* C13 witness: three connections; two have joined project 1 and one of them
\* holds a project-updated for project 1, so the other one published it; the
\* publisher and the connection that joined only another channel hold nothing.
C13_Witness ==
  \E s, d, e \in Connections :
    /\ s # d /\ s # e /\ d # e
    /\ \A c \in {s, d, e} : sockets[c].state = "connected"
    /\ sockets[s].asked = {"1"} /\ sockets[d].asked = {"1"}
    /\ sockets[e].asked = {Undefined}
    /\ delivered[d] = <<[event |-> "project-updated", data |-> [projectId |-> "1"]]>>
    /\ delivered[s] = <<>> /\ delivered[e] = <<>>

\* C14: a connection that has not connected, or connects in this step, is in
\* no project room; a disconnected connection stays disconnected, is in no
\* room, and nothing is delivered to it whatever is published afterwards.
C14_DisconnectIsTerminal ==
  [][ \A c \in Connections :
        /\ sockets[c].state = "new" => sockets'[c].rooms = {}
        /\ sockets'[c].state = "disconnected" => sockets'[c].rooms = {}
        /\ sockets[c].state = "disconnected"
             => /\ sockets'[c].state = "disconnected"
                /\ delivered'[c] = delivered[c]
    ]_vars

\* C14 witness: a connection that had joined project 1 is disconnected and
\* holds nothing, while a connected member of that channel holds a
\* project-updated for project 1 published by a third, connected, connection.
C14_Witness ==
  \E c, d, e \in Connections :
    /\ c # d /\ c # e /\ d # e
    /\ sockets[c].state = "disconnected" /\ "1" \in sockets[c].asked
    /\ delivered[c] = <<>>
    /\ sockets[d].state = "connected" /\ "1" \in sockets[d].asked
    /\ delivered[d] = <<[event |-> "project-updated", data |-> [projectId |-> "1"]]>>
    /\ sockets[e].state = "connected" /\ sockets[e].asked = {}

\* C16: when a dashboard has saved an edit of project P and emits its
\* project-update, every other connected dashboard whose user has P among the
\* visible projects is delivered a project-updated event for P, the event on
\* which a dashboard re-fetches its project list.
C16_OthersNotified ==
  [][ \A c \in Connections :
        (resp.route = "update" /\ resp.status = 200 /\ HandleSaved(c))
        => \A d \in Connections \ {c} :
             ( /\ sockets[d].state = "connected"
               /\ resp.id \in VisibleTo(sockets[d].token.userId) )
             => /\ delivered'[d] # <<>>
                /\ delivered'[d][Len(delivered'[d])].data.projectId = ToString(resp.id)
    ]_vars

\* the sum of the counts of a $group result
RECURSIVE SumCounts(_)
SumCounts(groups) ==
  IF groups = {} THEN 0
  ELSE LET g == CHOOSE x \in groups : TRUE
       IN g.count + SumCounts(groups \ {g})

\* C15: when the userProjects read, the per-status read and the
\* per-technology read of one stats call all found the same projects
\* collection, which is so whenever no project write came between them, the
\* answered userProjects is the number of stored projects whose owner or
\* collaborator is the caller, and the per-status counts and the
\* per-technology counts each sum to userProjects.
C15_StatsConsistent ==
  [][ \A r \in Suspended("stats") :
        ( /\ r.pc = 4 /\ r.seen = <<Project, Project>>
          /\ StatsRead(r) )
        => /\ resp'.route = "stats" /\ resp'.status = 200
           /\ resp'.stats.userProjects =
                Cardinality({i \in DOMAIN Project :
                               \/ Project[i].owner = r.caller
                               \/ r.caller \in Project[i].collaborators})
           /\ SumCounts(resp'.stats.projectsByStatus) = resp'.stats.userProjects
           /\ SumCounts(resp'.stats.projectsByTechnology) = resp'.stats.userProjects
    ]_vars

\* C15 witness: stats answered to a caller who is collaborator, not owner, of
\* a stored project: userProjects is 1 and both groupings count that project.
C15_Witness ==
  /\ resp.route = "stats" /\ resp.status = 200
  /\ \E i \in DOMAIN Project :
       resp.caller \in Project[i].collaborators /\ resp.caller # Project[i].owner
  /\ resp.stats.userProjects = 1
  /\ resp.stats.projectsByStatus = {[_id |-> "deployed", count |-> 1]}
  /\ resp.stats.projectsByTechnology = {[_id |-> "React", count |-> 1]}

\* C17: the removal step of a delete request removes a project only when the
\* request's caller is the owner in the stored document at that moment,
\* whatever update was applied since the request's ownership lookup.
C17_DeleteByOwnerAtRemoval ==
  [][ \A r \in Suspended("delete") :
        (r.id \in DOMAIN Project /\ r.id \notin DOMAIN Project' /\ DeleteRemove(r))
        => Project[r.id].owner = r.caller
    ]_vars
====
